---- MODULE Spec2Model ----
(***************************************************************************)
(* Model of the Air Quality Prediction API (src/main.py).                  *)
(*                                                                         *)
(* The module-level code loads a model artifact once; the single endpoint  *)
(* POST /predict receives a batch of locations, the framework validates it *)
(* against PredictionBatchInput, the handler predict_air_quality builds a  *)
(* table, calls model.predict, maps each output row to a PredictionOutput  *)
(* and returns the list, or prints the error and raises HTTPException 500. *)
(*                                                                         *)
(* Numbers are integers: coordinates in hundredths of a degree, pollutant  *)
(* values in tenths of a unit.  The code never does arithmetic on them, it *)
(* only moves them, so any set of distinguishable values serves.           *)
(***************************************************************************)
EXTENDS Integers, Sequences, FiniteSets, TLC

\* ------------------------------------------------------------------ bounds
MaxLen == 2        \* longest batch of locations a request carries
NumReq == 2        \* request slots (requests that may be in flight together)

Requests == 1..NumReq

\* ------------------------------------------------------- JSON field values
\* A field of a location object as it arrives in the JSON body.
Num(n)  == [kind |-> "num",     val |-> n]   \* a JSON number
Str(n)  == [kind |-> "str",     val |-> n]   \* a JSON string spelling the number n
Text    == [kind |-> "text",    val |-> 0]   \* a JSON string that spells no number
Missing == [kind |-> "missing", val |-> 0]   \* the key is absent

Loc(lat, lon) == [Latitude |-> lat, Longitude |-> lon]

RawValues == {Num(4071), Num(-7400), Str(1), Text, Missing}

\* locations of the single-request specification: every pair of raw values
WideElements == {Loc(a, b) : a \in RawValues, b \in RawValues}

\* locations of the concurrent specification: one well-formed, one without
\* Longitude
Elements == {Loc(Num(4071), Num(-7400)), Loc(Num(4071), Missing)}

SeqsUpTo(S, n) == UNION {[1..k -> S] : k \in 0..n}

VARIABLES
    artifact,      \* what lies at MODEL_PATH: "missing", "corrupt" or a regressor
    phase,         \* "boot", "path_ok", "serving", "fatal"
    startupError,  \* the exception the module-level code died with
    model,         \* the module global `model` ("none" until loaded)
    pc,            \* per request: "idle", "validated", "rejected", "returned", "raised", "done"
    body,          \* per request: the JSON locations list as sent
    data,          \* per request: data.locations after validation
    local,         \* per request: the handler's local variables
    predictCalls,  \* per request: number of calls of model.predict
    stdout,        \* per request: the lines the handler printed
    resp           \* per request: the response sent to the caller

vars == <<artifact, phase, startupError, model, pc, body, data, local,
          predictCalls, stdout, resp>>


\* ------------------------------------------------ schemas (pydantic models)
\* A `float` field: a JSON number is taken as it is, a string that spells a
\* number is converted to that number, anything else is a validation error.
ParseFloat(raw) ==
    CASE raw.kind = "num"     -> [ok |-> TRUE,  val |-> raw.val, err |-> ""]
      [] raw.kind = "str"     -> [ok |-> TRUE,  val |-> raw.val, err |-> ""]
      [] raw.kind = "missing" -> [ok |-> FALSE, val |-> 0, err |-> "field required"]
      [] OTHER                -> [ok |-> FALSE, val |-> 0, err |-> "value is not a valid float"]

\* variant: Longitude declared with a default, so its absence passes
PredictionInputLongitudeOptional(e) ==
    LET lat == ParseFloat(e.Latitude)
        lon == IF e.Longitude.kind = "missing"
               THEN [ok |-> TRUE, val |-> 0, err |-> ""]
               ELSE ParseFloat(e.Longitude)
    IN  [ok    |-> lat.ok /\ lon.ok,
         value |-> [Latitude |-> lat.val, Longitude |-> lon.val],
         err   |-> IF ~lat.ok THEN lat.err ELSE lon.err]

\* class PredictionInput: Latitude and Longitude, both required floats.
PredictionInput(e) ==
    LET lat == ParseFloat(e.Latitude)
        lon == ParseFloat(e.Longitude)
    IN  [ok    |-> lat.ok /\ lon.ok,
         value |-> [Latitude |-> lat.val, Longitude |-> lon.val],
         err   |-> IF ~lat.ok THEN lat.err ELSE lon.err]

\* class PredictionBatchInput: locations is a list of PredictionInput; the
\* whole body is rejected when any element is.
PredictionBatchInput(b) ==
    LET bad == {i \in 1..Len(b) : ~PredictionInput(b[i]).ok}
    IN  IF bad = {}
        THEN [ok |-> TRUE,
              locations |-> [i \in 1..Len(b) |-> PredictionInput(b[i]).value],
              err |-> ""]
        ELSE [ok |-> FALSE,
              locations |-> <<>>,
              err |-> PredictionInput(b[CHOOSE i \in bad : \A j \in bad : i <= j]).err]

\* the six required float fields of class PredictionOutput
OutputFields == {"PM2_5", "PM10", "O3", "NO2", "CO", "SO2"}

\* variant: the fields declared Optional, so a short row passes
PredictionOutputOptionalFields(d) ==
    [ok |-> TRUE, value |-> d, err |-> ""]

\* PredictionOutput(**d): every field is required; keys are taken by name.
PredictionOutput(d) ==
    IF OutputFields \subseteq DOMAIN d
    THEN [ok |-> TRUE,  value |-> [f \in OutputFields |-> d[f]], err |-> ""]
    ELSE [ok |-> FALSE, value |-> d,
          err |-> "validation error for PredictionOutput: field required"]

\* ------------------------------------------------------------ the table
NoFrame == [columns |-> <<"?">>, rows |-> <<>>]

\* pd.DataFrame(list of dicts): the columns are the keys of the dicts in
\* order of appearance, so an empty list gives a frame with no columns.
DataFrame(input_data) ==
    [columns |-> IF input_data = <<>> THEN <<>> ELSE <<"Latitude", "Longitude">>,
     rows    |-> [i \in 1..Len(input_data) |->
                     <<input_data[i].Latitude, input_data[i].Longitude>>]]

\* ------------------------------------------------------------ the model
\* The artifact is opaque.  Each regressor is a deterministic function of the
\* table; the kinds cover the shapes a loaded object can answer with.
Regressors == {"good", "short", "long", "extra", "raise"}

ExampleRow == <<123, 201, 54, 32, 8, 11>>

Row6(x) ==
    IF x = <<4071, -7400>> THEN ExampleRow
    ELSE <<x[1], x[2], x[1] + x[2], x[1] - x[2], 2 * x[1], 2 * x[2]>>

ModelPredict(m, X) ==
    LET n    == Len(X.rows)
        good == [i \in 1..n |-> Row6(X.rows[i])]
    IN  CASE m = "good"  -> [raised |-> FALSE, rows |-> good, err |-> ""]
          [] m = "short" -> [raised |-> FALSE,
                             rows |-> [i \in 1..n |-> SubSeq(good[i], 1, 5)],
                             err |-> ""]
          [] m = "long"  -> [raised |-> FALSE,
                             rows |-> [i \in 1..n |-> Append(good[i], 0)],
                             err |-> ""]
          [] m = "extra" -> [raised |-> FALSE,
                             rows |-> Append(good, <<1, 2, 3, 4, 5, 6>>),
                             err |-> ""]
          [] m = "raise" -> [raised |-> TRUE, rows |-> <<>>,
                             err |-> "feature shape mismatch"]
          [] OTHER       -> [raised |-> TRUE, rows |-> <<>>,
                             err |-> "object has no attribute 'predict'"]

\* ------------------------------------------------------------ the handler
\* variant: two names of the list exchanged
output_targets_swapped == <<"PM10", "PM2_5", "O3", "NO2", "CO", "SO2">>

output_targets == <<"PM2_5", "PM10", "O3", "NO2", "CO", "SO2">>

Min(a, b) == IF a < b THEN a ELSE b

\* dict(zip(names, values)): stops at the shorter of the two
DictZip(names, values) ==
    LET k == Min(Len(names), Len(values))
    IN  [f \in {names[j] : j \in 1..k} |->
            values[CHOOSE j \in 1..k : names[j] = f]]

\* variant: `results` kept at module level and never cleared
SharedResults(r) ==
    LET others == {q \in Requests \ {r} : local[q].results # <<>>}
    IN  IF others = {} THEN <<>> ELSE local[CHOOSE q \in others : TRUE].results

\* results = []
EmptyResults(r) == <<>>

\* for pred in predictions_array: results.append(PredictionOutput(**dict(zip(..))))
RECURSIVE MapRows(_, _)
MapRows(rows, results) ==
    IF rows = <<>>
    THEN [ok |-> TRUE, results |-> results, err |-> ""]
    ELSE LET o == PredictionOutput(DictZip(output_targets, Head(rows)))
         IN  IF o.ok
             THEN MapRows(Tail(rows), Append(results, o.value))
             ELSE [ok |-> FALSE, results |-> results, err |-> o.err]

ColumnsError == "Input data must contain 'Latitude' and 'Longitude' columns."

\* variant: the except block without its print
PrintedNothing(e) == <<>>

\* print(f"Prediction Error: {e}"): the lines it adds to the output
Printed(e) == <<"Prediction Error: " \o e>>

\* variant: a fixed detail that drops the message of the error
HTTPException500Generic(e) == [status_code |-> 500, detail |-> "Internal Server Error"]

\* HTTPException(status_code=500, detail=f"Internal Server Error: {e}")
HTTPException500(e) == [status_code |-> 500, detail |-> "Internal Server Error: " \o e]

NoHTTPException == [status_code |-> 0, detail |-> ""]

NoLocal ==
    [X_df |-> NoFrame, predictions_array |-> <<>>, results |-> <<>>,
     raised |-> FALSE, e |-> "", http |-> NoHTTPException]

\* The try block of predict_air_quality for request r, up to its return or
\* its first exception: the locals it leaves and the number of predict calls.
TryBlock(r) ==
    LET X_df == DataFrame(data[r])
    IN  IF X_df.columns # <<"Latitude", "Longitude">>
        THEN [calls |-> 0,
              loc |-> [NoLocal EXCEPT !.X_df = X_df, !.raised = TRUE,
                                      !.e = ColumnsError]]
        ELSE LET p == ModelPredict(model, X_df)
             IN  IF p.raised
                 THEN [calls |-> 1,
                       loc |-> [NoLocal EXCEPT !.X_df = X_df, !.raised = TRUE,
                                               !.e = p.err]]
                 ELSE LET m == MapRows(p.rows, EmptyResults(r))
                      IN  [calls |-> 1,
                           loc |-> [NoLocal EXCEPT !.X_df = X_df,
                                                   !.predictions_array = p.rows,
                                                   !.results = m.results,
                                                   !.raised = ~m.ok,
                                                   !.e = m.err]]


\* ------------------------------------------------------------ responses
NoResponse == [status |-> 0, body |-> <<>>, detail |-> ""]

\* response_model=List[PredictionOutput]: each result is rendered as a JSON
\* object holding the fields of the schema
RenderResults(results) ==
    [i \in 1..Len(results) |->
        [f \in OutputFields \cap DOMAIN results[i] |-> results[i][f]]]

\* ------------------------------------------------------------ startup
MODEL_PATH_exists == artifact # "missing"

\* joblib.load(MODEL_PATH)
JoblibLoad(a) ==
    IF a \in Regressors
    THEN [ok |-> TRUE,  obj |-> a,      err |-> ""]
    ELSE [ok |-> FALSE, obj |-> "none", err |-> "could not unpickle " \o a]

\* variant: the load error swallowed and the application started anyway
OnLoadFailureServe == "serving"

\* except Exception as e: raise RuntimeError(...)  -- the import dies
OnLoadFailure == "fatal"

Init ==
    /\ artifact \in Regressors \cup {"missing", "corrupt"}
    /\ phase = "boot"
    /\ startupError = ""
    /\ model = "none"
    /\ pc = [r \in Requests |-> "idle"]
    /\ body = [r \in Requests |-> <<>>]
    /\ data = [r \in Requests |-> <<>>]
    /\ local = [r \in Requests |-> NoLocal]
    /\ predictCalls = [r \in Requests |-> 0]
    /\ stdout = [r \in Requests |-> <<>>]
    /\ resp = [r \in Requests |-> NoResponse]

\* if not os.path.exists(MODEL_PATH): raise FileNotFoundError(...)
CheckModelPath ==
    /\ phase = "boot"
    /\ IF MODEL_PATH_exists
       THEN phase' = "path_ok" /\ UNCHANGED startupError
       ELSE /\ phase' = "fatal"
            /\ startupError' = "FileNotFoundError: Model file not found"
    /\ UNCHANGED <<artifact, model, pc, body, data, local, predictCalls, stdout, resp>>

\* try: model = joblib.load(MODEL_PATH) except Exception as e: raise RuntimeError
LoadModel ==
    /\ phase = "path_ok"
    /\ LET l == JoblibLoad(artifact)
       IN  IF l.ok
           THEN /\ model' = l.obj
                /\ phase' = "serving"
                /\ UNCHANGED startupError
           ELSE /\ phase' = OnLoadFailure
                /\ startupError' = "RuntimeError: Failed to load the model: " \o l.err
                /\ UNCHANGED model
    /\ UNCHANGED <<artifact, pc, body, data, local, predictCalls, stdout, resp>>

\* ------------------------------------------------------------ POST /predict
\* The framework takes a request body and parses it as PredictionBatchInput
\* (the handler's parameter `data`); a body that does not parse is answered
\* by the framework and the handler is not called.
ReceiveRequest(r, bodies) ==
    /\ phase = "serving"
    /\ pc[r] = "idle"
    /\ \E b \in bodies :
         /\ body' = [body EXCEPT ![r] = b]
         /\ LET v == PredictionBatchInput(b)
            IN  IF v.ok
                THEN /\ data' = [data EXCEPT ![r] = v.locations]
                     /\ pc' = [pc EXCEPT ![r] = "validated"]
                ELSE /\ UNCHANGED data
                     /\ pc' = [pc EXCEPT ![r] = "rejected"]
    /\ UNCHANGED <<artifact, phase, startupError, model, local, predictCalls,
                   stdout, resp>>

\* The handler: the try block, then either `return results` or the except
\* block (print, raise HTTPException).
predict_air_quality(r) ==
    /\ pc[r] = "validated"
    /\ LET t == TryBlock(r)
       IN  /\ predictCalls' = [predictCalls EXCEPT ![r] = @ + t.calls]
           /\ IF t.loc.raised
              THEN /\ stdout' = [stdout EXCEPT ![r] = @ \o Printed(t.loc.e)]
                   /\ local' = [local EXCEPT
                                  ![r] = [t.loc EXCEPT !.http = HTTPException500(t.loc.e)]]
                   /\ pc' = [pc EXCEPT ![r] = "raised"]
              ELSE /\ UNCHANGED stdout
                   /\ local' = [local EXCEPT ![r] = t.loc]
                   /\ pc' = [pc EXCEPT ![r] = "returned"]
    /\ UNCHANGED <<artifact, phase, startupError, model, body, data, resp>>

\* The framework turns the handler's return value, the HTTPException or the
\* validation error into the response.
SendResponse(r) ==
    /\ pc[r] \in {"rejected", "returned", "raised"}
    /\ resp' = [resp EXCEPT ![r] =
                  CASE pc[r] = "rejected" ->
                         [status |-> 422, body |-> <<>>,
                          detail |-> PredictionBatchInput(body[r]).err]
                    [] pc[r] = "returned" ->
                         [status |-> 200, body |-> RenderResults(local[r].results),
                          detail |-> ""]
                    [] pc[r] = "raised" ->
                         [status |-> local[r].http.status_code, body |-> <<>>,
                          detail |-> local[r].http.detail]]
    /\ pc' = [pc EXCEPT ![r] = "done"]
    /\ UNCHANGED <<artifact, phase, startupError, model, body, data, local,
                   predictCalls, stdout>>

\* Concurrent requests over a small alphabet of locations.
Next ==
    \/ CheckModelPath
    \/ LoadModel
    \/ \E r \in Requests : ReceiveRequest(r, SeqsUpTo(Elements, MaxLen))
    \/ \E r \in Requests : predict_air_quality(r)
    \/ \E r \in Requests : SendResponse(r)

Spec == Init /\ [][Next]_vars

\* One request at a time drawn from every combination of raw field values.
NextSingle ==
    \/ CheckModelPath
    \/ LoadModel
    \/ ReceiveRequest(1, SeqsUpTo(WideElements, MaxLen))
    \/ predict_air_quality(1)
    \/ SendResponse(1)

SpecSingle == Init /\ [][NextSingle]_vars


\* ------------------------------------------------------------ properties
Done(r) == pc[r] = "done"

\* a field the schema accepts: a number, or a string spelling one
Numeric(raw) == raw.kind \in {"num", "str"}

WellFormed(e) == Numeric(e.Latitude) /\ Numeric(e.Longitude)

AllWellFormed(b) == \A i \in 1..Len(b) : WellFormed(b[i])

\* the estimate whose j-th pollutant, in the documented order, is row[j]
EstimateOf(row) ==
    [PM2_5 |-> row[1], PM10 |-> row[2], O3 |-> row[3],
     NO2 |-> row[4], CO |-> row[5], SO2 |-> row[6]]

\* C1: with a model that keeps its contract (N rows of six values), every
\* answered request whose N locations are all valid got a success response
\* with exactly N estimates, the i-th built from the model's i-th output row,
\* for every N >= 0.
C1_OrderPreservation ==
    \A r \in Requests :
        (Done(r) /\ model = "good" /\ AllWellFormed(body[r])) =>
            /\ resp[r].status = 200
            /\ Len(resp[r].body) = Len(body[r])
            /\ \A i \in 1..Len(body[r]) :
                   resp[r].body[i] = EstimateOf(local[r].predictions_array[i])

\* C2: a request with an empty locations list is answered with success and an
\* empty list, and model.predict is not called for it.
C2_EmptyBatch ==
    \A r \in Requests :
        (Done(r) /\ body[r] = <<>>) =>
            /\ resp[r].status = 200
            /\ resp[r].body = <<>>
            /\ predictCalls[r] = 0

\* C3: a request with any location that lacks Latitude or Longitude, or holds
\* a value that cannot be read as a number (a string spelling a number is
\* read as that number), never enters the handler: it is answered 422 with
\* no output, and model.predict is never called for it, whatever the other
\* locations are.
C3_ValidationRejection ==
    \A r \in Requests :
        (pc[r] # "idle" /\ ~AllWellFormed(body[r])) =>
            /\ pc[r] \in {"rejected", "done"}
            /\ predictCalls[r] = 0
            /\ local[r] = NoLocal
            /\ resp[r].body = <<>>
            /\ resp[r].status \in {0, 422}
            /\ Done(r) => resp[r].status = 422

C3_Witness ==
    \E r \in Requests :
        /\ Done(r)
        /\ Len(body[r]) = 2
        /\ WellFormed(body[r][1])
        /\ body[r][2].Longitude = Missing
        /\ resp[r].status = 422

\* C4: with a missing or unloadable artifact the service never serves: the
\* model stays unset, no request is ever taken or answered, and once startup
\* has failed nothing is handled.
C4_StartupGate ==
    (artifact \in {"missing", "corrupt"} \/ phase = "fatal") =>
        /\ phase \in {"boot", "path_ok", "fatal"}
        /\ model = "none"
        /\ \A r \in Requests : pc[r] = "idle" /\ resp[r] = NoResponse

C4_Witness ==
    /\ phase = "fatal"
    /\ artifact = "corrupt"
    /\ startupError # ""

\* C5: when the try block raises (table check, model.predict or result
\* mapping), the request is answered 500 with a detail that carries the
\* message of the error, no output is returned, and model.predict was called
\* at most once.
C5_InferenceFailure ==
    \A r \in Requests :
        /\ local[r].raised =>
              /\ predictCalls[r] <= 1
              /\ resp[r].body = <<>>
              /\ resp[r].status \in {0, 500}
              /\ Done(r) =>
                    /\ resp[r].status = 500
                    /\ resp[r].detail = "Internal Server Error: " \o local[r].e
        /\ (Done(r) /\ model = "raise" /\ body[r] # <<>> /\ AllWellFormed(body[r])) =>
              /\ local[r].raised
              /\ resp[r].detail = "Internal Server Error: feature shape mismatch"

C5_Witness ==
    \E r \in Requests :
        /\ Done(r)
        /\ model = "raise"
        /\ predictCalls[r] = 1
        /\ resp[r].status = 500

\* C6: in a success response the i-th estimate binds the j-th value of the
\* model's i-th row of six values to the j-th of PM2_5, PM10, O3, NO2, CO,
\* SO2, unchanged; the row 12.3, 20.1, 5.4, 3.2, 0.8, 1.1 (in tenths) gives
\* PM2_5=12.3, PM10=20.1, O3=5.4, NO2=3.2, CO=0.8, SO2=1.1.
C6_FixedOrderBinding ==
    \A r \in Requests :
        resp[r].status = 200 =>
            /\ \A i \in 1..Len(local[r].predictions_array) :
                   Len(local[r].predictions_array[i]) = 6 =>
                       /\ i <= Len(resp[r].body)
                       /\ resp[r].body[i] = EstimateOf(local[r].predictions_array[i])
            /\ (model = "good" /\ data[r] = <<[Latitude |-> 4071, Longitude |-> -7400]>>) =>
                   resp[r].body = <<[PM2_5 |-> 123, PM10 |-> 201, O3 |-> 54,
                                     NO2 |-> 32, CO |-> 8, SO2 |-> 11]>>

C6_Witness ==
    \E r \in Requests :
        /\ resp[r].status = 200
        /\ model = "good"
        /\ body[r] = <<Loc(Num(4071), Num(-7400))>>
        /\ resp[r].body[1].PM2_5 = 123

\* C7: every estimate of every success response has exactly the six pollutant
\* fields, each a number, whatever the length of the rows the model returned;
\* rows too short for that end in 500.
C7_FieldCompleteness ==
    \A r \in Requests :
        /\ resp[r].status = 200 =>
              \A i \in 1..Len(resp[r].body) :
                  /\ DOMAIN resp[r].body[i] = {"PM2_5", "PM10", "O3", "NO2", "CO", "SO2"}
                  /\ \A f \in DOMAIN resp[r].body[i] : resp[r].body[i][f] \in Int
        /\ (Done(r) /\ local[r].predictions_array # <<>>
                /\ \E i \in 1..Len(local[r].predictions_array) :
                       Len(local[r].predictions_array[i]) < 6) =>
              resp[r].status = 500

C7_Witness ==
    \E r \in Requests :
        /\ resp[r].status = 200
        /\ Len(resp[r].body) = 2
        /\ Len(local[r].predictions_array[1]) = 7

\* C8: two answered requests with the same body got the same response,
\* whatever was handled before or between them.
C8_Deterministic ==
    \A r \in Requests : \A q \in Requests :
        (Done(r) /\ Done(q) /\ body[r] = body[q]) => resp[r] = resp[q]

C8_Witness ==
    /\ Done(1)
    /\ Done(2)
    /\ body[1] = body[2]
    /\ Len(body[1]) = 2
    /\ resp[1].status = 200

\* C9: no success response carries a number of estimates other than the
\* number N of locations sent; a model answer with another number of rows
\* ends in a server error.
C9_RowCountMismatch ==
    \A r \in Requests :
        Done(r) =>
            /\ resp[r].status = 200 => Len(resp[r].body) = Len(body[r])
            /\ (predictCalls[r] = 1 /\ ~local[r].raised
                    /\ Len(local[r].predictions_array) # Len(data[r])) =>
                  resp[r].status >= 500

\* C10 as stated: every failure response (validation failure included) is
\* preceded by a diagnostic line in the log.
C10_LogOnAnyFailure ==
    \A r \in Requests :
        resp[r].status \notin {0, 200} => stdout[r] # <<>>

\* C10 as amended: every failure raised inside the handler (column check,
\* model error, result mapping) prints its diagnostic line before the 500
\* response is sent; a validation failure is answered 422 by the framework
\* with no line printed.
C10_LogBeforeServerError ==
    \A r \in Requests :
        /\ (pc[r] = "raised" \/ resp[r].status = 500) =>
              stdout[r] = <<"Prediction Error: " \o local[r].e>>
        /\ pc[r] = "raised" => resp[r] = NoResponse
        /\ resp[r].status = 422 => stdout[r] = <<>>

C10_Witness ==
    \E r \in Requests :
        /\ pc[r] = "raised"
        /\ stdout[r] # <<>>
        /\ resp[r] = NoResponse

====
